---- MODULE Spec2Model ----
(***************************************************************************)
(* A model of the plugin SteamTopSellers (src/main.py): the subscription   *)
(* store and its durable file, the scheduler armed at construction, the    *)
(* fan-out job _send_daily_report, the command handlers and the report     *)
(* builder _generate_report_text.                                          *)
(*                                                                         *)
(* Strings are sequences of tokens: "aiocqhttp:GroupMessage:u1_g1" is      *)
(* <<"aiocqhttp", ":", "GroupMessage", ":", "u1", "_", "g1">>, so that the *)
(* splits and joins of the code are sequence operations.                   *)
(***************************************************************************)
EXTENDS Integers, Sequences, FiniteSets, TLC

VARIABLES
    proc,       \* "down" | "up" | "failed": the plugin object (failed: __init__ raised)
    cfg,        \* self.config as read by __init__ (lines 30-33)
    file,       \* SUBSCRIPTIONS_FILE on disk
    groups,     \* self._subscribed_groups
    lastWrite,  \* outcome of the latest _save_subscribed_groups of this process
    scheduler,  \* self.scheduler and the jobs registered with it
    job,        \* the running _send_daily_report coroutine
    ev          \* the operation that produced this state and what it returned

vars == <<proc, cfg, file, groups, lastWrite, scheduler, job, ev>>

(***************************************************************************)
(* Bounds of the model.                                                    *)
(***************************************************************************)
\* Most iterations a fan-out run is followed through once the set it iterates
\* was mutated under it (the iterator's order is then unspecified).
MaxSends == 3
\* Longest list of result rows a fetch returns in the report specification.
MaxRows == 2
\* How far below 1 and above the cap of 25 the requested counts range.
NumSlack == 2
\* Longest time string handed to parse_time_string in the parser specification.
MaxTimeLen == 5
\* Most pieces a price text is put together from in the price specification.
MaxPieces == 4

(***************************************************************************)
(* Strings.                                                                *)
(***************************************************************************)
Colon == ":"
Underscore == "_"
\* the full-width colon of line 312
FullWidthColon == "FWC"

Digits == {"0", "1", "2", "3", "4", "5", "6", "7", "8", "9"}

DigitVal ==
    ("0" :> 0) @@ ("1" :> 1) @@ ("2" :> 2) @@ ("3" :> 3) @@ ("4" :> 4) @@
    ("5" :> 5) @@ ("6" :> 6) @@ ("7" :> 7) @@ ("8" :> 8) @@ ("9" :> 9)

\* Index of the last occurrence of token c in s, 0 when there is none.
LastIndexOf(s, c) ==
    LET hits == {i \in 1..Len(s) : s[i] = c}
    IN  IF hits = {} THEN 0 ELSE CHOOSE i \in hits : \A j \in hits : j <= i

\* str.rsplit(c, 1): <<s>> when c does not occur, else <<before, after>>.
RSplit1(s, c) ==
    LET i == LastIndexOf(s, c)
    IN  IF i = 0 THEN <<s>>
        ELSE <<SubSeq(s, 1, i - 1), SubSeq(s, i + 1, Len(s))>>

\* "x in s" for a one-token x
Contains(s, c) == \E i \in 1..Len(s) : s[i] = c

\* str.replace(a, b) for one-token a and b
Replace(s, a, b) == [i \in 1..Len(s) |-> IF s[i] = a THEN b ELSE s[i]]

GroupPrefix == <<"aiocqhttp", Colon, "GroupMessage", Colon>>
FriendPrefix == <<"aiocqhttp", Colon, "FriendMessage", Colon>>

\* f"aiocqhttp:GroupMessage:{group_id}" (line 55)
StaticGroupId(group_id) == GroupPrefix \o group_id
\* f"aiocqhttp:FriendMessage:{sender_id}" (line 60)
StaticSenderId(sender_id) == FriendPrefix \o sender_id

SeqRange(s) == {s[i] : i \in 1..Len(s)}

(***************************************************************************)
(* parse_time_string (lines 305-327).                                      *)
(***************************************************************************)
\* the value None
None == <<>>

IsDigits(s, from, n) ==
    /\ from + n - 1 <= Len(s)
    /\ \A i \in from..(from + n - 1) : s[i] \in Digits

\* int() of a run of decimal digits
RECURSIVE IntOf(_)
IntOf(s) ==
    IF s = <<>> THEN 0
    ELSE 10 * IntOf(SubSeq(s, 1, Len(s) - 1)) + DigitVal[s[Len(s)]]

\* pattern.match of (\d{1,2}):?(\d{2}) at the start of s. The alternatives are
\* tried in the order of the regex engine: the longer hour first, the colon
\* before its absence. A candidate is <<length of the hour, 1 if a colon is
\* consumed else 0>>; the result is <<group 1, group 2>> or None.
TimeCandidates == << <<2, 1>>, <<2, 0>>, <<1, 1>>, <<1, 0>> >>

TimeCandidateMatches(s, c) ==
    /\ IsDigits(s, 1, c[1])
    /\ c[2] = 1 => (c[1] + 1 <= Len(s) /\ s[c[1] + 1] = Colon)
    /\ IsDigits(s, c[1] + c[2] + 1, 2)

\* the groups of the match by candidate c
TimeGroups(s, c) ==
    << SubSeq(s, 1, c[1]), SubSeq(s, c[1] + c[2] + 1, c[1] + c[2] + 2) >>

\* the first of the candidates ok, in the engine's order
FirstCandidate(ok) == TimeCandidates[CHOOSE k \in ok : \A j \in ok : k <= j]

TimeMatchAmong(s, ok) ==
    IF ok = {} THEN None ELSE TimeGroups(s, FirstCandidate(ok))

TimeMatch(s) ==
    TimeMatchAmong(s, {k \in 1..Len(TimeCandidates) :
                          TimeCandidateMatches(s, TimeCandidates[k])})

\* A parser without the range test of line 321.
TimeUnchecked(hour, minute) == <<hour, minute>>

\* lines 321-324
TimeInRange(hour, minute) ==
    IF 0 <= hour /\ hour <= 23 /\ 0 <= minute /\ minute <= 59
    THEN <<hour, minute>>
    ELSE None

\* lines 317-327, on the match object
TimeOfMatch(m) ==
    IF m = None THEN None ELSE TimeInRange(IntOf(m[1]), IntOf(m[2]))

parse_time_string(time_str) ==
    TimeOfMatch(TimeMatch(Replace(time_str, FullWidthColon, Colon)))

(***************************************************************************)
(* format_group_origin (lines 329-344).                                    *)
(***************************************************************************)
\* lines 338-344, on the two parts of the rsplit
GroupOrigin(prefix, pieces) == prefix \o <<Colon>> \o pieces[Len(pieces)]

OriginOfParts(origin_id, parts) ==
    IF Len(parts) < 2 \/ ~Contains(parts[1], "GroupMessage")
    THEN origin_id
    ELSE GroupOrigin(parts[1], RSplit1(parts[2], Underscore))

\* A normalisation that keeps the sender qualifier: the origin id as it came.
OriginUnchanged(origin_id) == origin_id

format_group_origin(origin_id) == OriginOfParts(origin_id, RSplit1(origin_id, Colon))

(***************************************************************************)
(* The inputs of the model: configurations, message origins, I/O outcomes. *)
(***************************************************************************)
\* self.config: remind_time, manually_added_groups, manually_added_senders,
\* default_top_num (lines 30-33).
Configs ==
    { [remind_time |-> <<"0", "8", "3", "5">>,
       manually_added_groups |-> << <<"g1">> >>,
       manually_added_senders |-> << <<"u2">> >>,
       default_top_num |-> 5],
      [remind_time |-> <<"0", "8", "3", "5">>,
       manually_added_groups |-> <<>>,
       manually_added_senders |-> <<>>,
       default_top_num |-> 5],
      [remind_time |-> <<"2", "5", Colon, "0", "0">>,
       manually_added_groups |-> <<>>,
       manually_added_senders |-> << <<"u2">> >>,
       default_top_num |-> 5],
      [remind_time |-> <<>>,
       manually_added_groups |-> << <<"g1">> >>,
       manually_added_senders |-> <<>>,
       default_top_num |-> 5] }

NoConfig ==
    [remind_time |-> <<>>, manually_added_groups |-> <<>>,
     manually_added_senders |-> <<>>, default_top_num |-> 5]

\* event.unified_msg_origin of the sessions that issue commands
Origins ==
    { GroupPrefix \o <<"u1", Underscore, "g1">>,
      GroupPrefix \o <<"u2", Underscore, "g1">>,
      GroupPrefix \o <<"g1">>,
      FriendPrefix \o <<"u1">> }

\* Outcomes of the open/json.dump of _save_subscribed_groups: the write
\* succeeds, open() raises (the file is untouched), or the dump raises after
\* open(..., "w") truncated the file (what is left is no JSON document).
SaveOutcomes == {"ok", "open_failed", "dump_failed"}

\* Outcomes of the open of _load_subscribed_groups on an existing file.
ReadOutcomes == {"ok", "io_error"}

(***************************************************************************)
(* The durable file and the subscription store (lines 46-78).              *)
(***************************************************************************)
FileMissing == [st |-> "missing", data |-> {}]
FileCorrupt == [st |-> "corrupt", data |-> {}]
FileHolding(set) == [st |-> "ok", data |-> set]

\* A save that opens the file for exclusive creation: an existing file is
\* never overwritten, and nothing is reported.
SaveKeepsExisting(f, set, outcome) ==
    CASE outcome = "ok" -> <<IF f.st = "ok" THEN f ELSE FileHolding(set), "ok">>
      [] outcome = "open_failed" -> <<f, "failed">>
      [] outcome = "dump_failed" -> <<FileCorrupt, "failed">>

\* _save_subscribed_groups: <<the file afterwards, "ok" or "failed">>. IOError is
\* caught and logged (lines 77-78): nothing is raised to the caller.
_save_subscribed_groups(f, set, outcome) ==
    CASE outcome = "ok" -> <<FileHolding(set), "ok">>
      [] outcome = "open_failed" -> <<f, "failed">>
      [] outcome = "dump_failed" -> <<FileCorrupt, "failed">>

\* the two loops of lines 52-61
StaticEntries(c) ==
    {StaticGroupId(g) : g \in SeqRange(c.manually_added_groups)}
        \cup {StaticSenderId(s) : s \in SeqRange(c.manually_added_senders)}

\* what a load leaves: the set, the file and the outcome of its save
Loaded(set, saved, read) ==
    [groups |-> set, file |-> saved[1], lastWrite |-> saved[2], read |-> read]

\* lines 51-63: the file was read
LoadMerged(f, merged, wr) ==
    Loaded(merged, _save_subscribed_groups(f, merged, wr), "ok")

\* _load_subscribed_groups on the empty set of line 39:
\* [groups, file, lastWrite, read], read being "ok", "failed" or "nofile".
_load_subscribed_groups(f, c, rd, wr) ==
    IF f.st # "missing"
    THEN IF f.st = "corrupt" \/ rd = "io_error"
         THEN \* except (IOError, json.JSONDecodeError): logged (lines 64-65)
              [groups |-> {}, file |-> f, lastWrite |-> "none", read |-> "failed"]
         ELSE LoadMerged(f, f.data \cup StaticEntries(c), wr)
    ELSE Loaded({}, _save_subscribed_groups(f, {}, wr), "nofile")

(***************************************************************************)
(* _format_price (lines 96-111). A price text is a sequence of characters: *)
(* digits, " ", ",", ".", "-", "%", "Y" (the yen sign) and the two free     *)
(* markers, each written as one token.                                     *)
(***************************************************************************)
Space == " "
Yen == "Y"
FreeMarkers == {"MianFei", "Free"}
\* the returned "免费开玩"
FreeToPlay == <<"MianFeiKaiWan">>
\* the placeholder "--" of lines 185-186
Placeholder == <<"-", "-">>

RECURSIVE Strip(_)
Strip(s) ==
    IF s = <<>> THEN s
    ELSE IF s[1] = Space THEN Strip(Tail(s))
    ELSE IF s[Len(s)] = Space THEN Strip(SubSeq(s, 1, Len(s) - 1))
    ELSE s

\* Length of the longest run of tokens of class cls in s from index i on.
RECURSIVE RunLen(_, _, _)
RunLen(s, i, cls) ==
    IF i <= Len(s) /\ s[i] \in cls THEN 1 + RunLen(s, i + 1, cls) ELSE 0

AmountChars == Digits \cup {"."}

\* the index after the spaces that start at i
SkipSpaces(s, i) == i + RunLen(s, i, {Space})

\* [\d\.]+ from index j, for an amount that starts at i
AmountRun(i, j, n) == IF n >= 1 THEN <<i, j + n - 1>> ELSE None
AmountDigits(s, i, j) == AmountRun(i, j, RunLen(s, j, AmountChars))

\* One currency amount, (¥\s*[\d\.]+), from index i: <<first, last>> of the
\* group, or None.
AmountAt(s, i) ==
    IF i <= Len(s) /\ s[i] = Yen THEN AmountDigits(s, i, SkipSpaces(s, i + 1)) ELSE None

\* discount_pattern matched from index i: <<group 2, group 3, group 4>> or None.
DiscountGroups(s, i, d, a1, a2) ==
    IF a2 = None THEN None
    ELSE << SubSeq(s, i + 1, i + d), SubSeq(s, a1[1], a1[2]), SubSeq(s, a2[1], a2[2]) >>

DiscountSecond(s, i, d, a1) ==
    IF a1 = None THEN None
    ELSE DiscountGroups(s, i, d, a1, AmountAt(s, SkipSpaces(s, a1[2] + 1)))

DiscountPercent(s, i, d) ==
    IF d >= 1 /\ i + 1 + d <= Len(s) /\ s[i + 1 + d] = "%"
    THEN DiscountSecond(s, i, d, AmountAt(s, SkipSpaces(s, i + 2 + d)))
    ELSE None

DiscountAt(s, i) ==
    IF i <= Len(s) /\ s[i] = "-" THEN DiscountPercent(s, i, RunLen(s, i + 1, Digits))
    ELSE None

\* the leftmost of the matches <<index, groups>>
Leftmost(ms) ==
    IF ms = {} THEN None ELSE (CHOOSE m \in ms : \A k \in ms : m[1] <= k[1])[2]

\* discount_pattern.search
DiscountSearch(s) ==
    Leftmost({m \in {<<i, DiscountAt(s, i)>> : i \in 1..Len(s)} : m[2] # None})

\* lines 105-111
FormatMatch(price_text, match) ==
    IF match # None
    THEN Strip(match[3]) \o <<Space, "(", "original:", Space>> \o Strip(match[2])
             \o <<",", Space, "-">> \o match[1] \o <<"%", ")">>
    ELSE price_text

\* A normalizer that looks for the discount before the free marker.
FormatDiscountFirst(price_text) ==
    IF DiscountSearch(price_text) # None
    THEN FormatMatch(price_text, DiscountSearch(price_text))
    ELSE IF \E m \in FreeMarkers : Contains(price_text, m) THEN FreeToPlay
    ELSE price_text

\* lines 99-111
FormatNormalized(price_text) ==
    IF \E m \in FreeMarkers : Contains(price_text, m) THEN FreeToPlay
    ELSE FormatMatch(price_text, DiscountSearch(price_text))

_format_price(raw) == FormatNormalized(Replace(Strip(raw), ",", "."))

(***************************************************************************)
(* _generate_report_text (lines 143-196).                                  *)
(***************************************************************************)
\* the cap of line 146
MaxTopNum == 25

Min(a, b) == IF a <= b THEN a ELSE b
Max(a, b) == IF a >= b THEN a ELSE b

\* A count argument: absent (None) or an integer.
NoNum == [given |-> FALSE, n |-> 0]
Num(n) == [given |-> TRUE, n |-> n]

Clamp(chosen) == Max(1, Min(chosen, MaxTopNum))

\* lines 145-146: "num or default" takes the default for None and for 0
EffectiveNum(num, default_top_num) ==
    Clamp(IF num.given /\ num.n # 0 THEN num.n ELSE default_top_num)

\* An element the markup may hold: select_one gives None when it is absent.
Absent == [present |-> FALSE, text |-> <<>>]
Elem(text) == [present |-> TRUE, text |-> text]

\* line 186: _format_price(raw_price) or "--"
OrPlaceholder(formatted) == IF formatted = <<>> THEN Placeholder ELSE formatted

\* line 185
RawPrice(price_div) == IF price_div.present THEN Strip(price_div.text) ELSE Placeholder

\* lines 180-190 for one row: <<rank, title, price>>, or None when the row has
\* no span.title (None.get_text raises AttributeError).
RowEntry(item, count) ==
    IF ~item.title.present THEN None
    ELSE << count + 1,
            Strip(item.title.text),
            OrPlaceholder(_format_price(
                RawPrice(IF item.combined.present THEN item.combined ELSE item.plain))) >>

\* The report text: the header "Top {num}" followed by one part per entry;
\* None when a row raised (caught at line 194).
Rendered(n, parts) ==
    IF \E i \in 1..Len(parts) : parts[i] = None THEN None
    ELSE << <<"Top", n>> >> \o parts

\* A loop without the test of line 177: every row gives an entry.
ReportOfAllRows(n, rows) ==
    Rendered(n, [i \in 1..Len(rows) |-> RowEntry(rows[i], i - 1)])

\* lines 174-192: the loop over the first n rows
ReportOfRows(n, rows) ==
    Rendered(n, [i \in 1..Min(n, Len(rows)) |-> RowEntry(rows[i], i - 1)])

\* None (the empty sequence) is returned for every failure.
_generate_report_text(num, default_top_num, fetch) ==
    IF fetch.kind # "html" THEN None      \* raise_for_status, json(), no results_html
    ELSE IF fetch.rows = <<>> THEN None   \* lines 171-172
    ELSE ReportOfRows(EffectiveNum(num, default_top_num), fetch.rows)

(***************************************************************************)
(* _start_scheduler (lines 80-94) and terminate (lines 346-348).           *)
(***************************************************************************)
\* self.scheduler is None when no AsyncIOScheduler was created.
NoScheduler == [created |-> 0, jobs |-> <<>>, running |-> FALSE]

\* An arming without the test of line 82: one more scheduler and job per call.
ArmedAgain(sch, t) ==
    [created |-> sch.created + 1,
     jobs |-> Append(sch.jobs, [id |-> "daily_steam_report", hour |-> t[1], minute |-> t[2]]),
     running |-> TRUE]

\* lines 82-91, with the pair unpacked at line 81
Armed(sch, t) ==
    IF sch.created = 0
    THEN [created |-> 1,
          jobs |-> <<[id |-> "daily_steam_report", hour |-> t[1], minute |-> t[2]]>>,
          running |-> TRUE]
    ELSE sch

ArmWith(sch, t) ==
    IF t = None THEN [raised |-> TRUE, scheduler |-> sch]
    ELSE [raised |-> FALSE, scheduler |-> Armed(sch, t)]

\* [raised, scheduler]: unpacking None at line 81 raises TypeError.
_start_scheduler(sch, c) == ArmWith(sch, parse_time_string(c.remind_time))

\* A teardown that leaves the scheduler as it is.
TerminateLeavesScheduler(sch) == sch

terminate(sch) ==
    IF sch.created > 0 /\ sch.running THEN [sch EXCEPT !.running = FALSE] ELSE sch

(***************************************************************************)
(* The fan-out run, _send_daily_report (lines 114-141). It is a coroutine: *)
(* it is suspended at the await of the report build (line 121) and at the  *)
(* await of every send (line 127), and the command handlers run in between.*)
(***************************************************************************)
IdleJob ==
    [pc |-> "idle",        \* idle | building | sending | done
     outcome |-> "none",   \* how the run ended
     start |-> {},         \* the subscription set when the run started
     report |-> None,      \* report_text
     fetches |-> 0,        \* calls of _generate_report_text in this run
     size |-> 0,           \* the size the set iterator of line 126 was created with
     dirty |-> FALSE,      \* the set was mutated since the iterator was created
     cur |-> <<>>,         \* group_id of the send awaited
     visited |-> {},       \* the ids the iterator has produced
     sends |-> 0,          \* the send_message calls made
     delivered |-> <<>>,   \* id -> the number of sends to it that returned
     failed |-> {},        \* the ids a send to which raised
     texts |-> {}]         \* the texts passed to send_message

Finished(j, how) == [j EXCEPT !.pc = "done", !.outcome = how, !.cur = <<>>]

\* The fetches a run or a command of the plugin specification may see.
TitleText == <<"T">>
FlatPrice == <<Yen, Space, "4", ",", "0">>
GoodRow == [title |-> Elem(TitleText), combined |-> Absent, plain |-> Elem(FlatPrice)]
UntitledRow == [title |-> Absent, combined |-> Absent, plain |-> Elem(FlatPrice)]
FetchFailed == [kind |-> "client_error", rows |-> <<>>]
FetchOf(rows) == [kind |-> "html", rows |-> rows]
PluginFetches == {FetchFailed, FetchOf(<<GoodRow>>)}
\* The fetches the build of a run may see: session.get raises (connection,
\* timeout), raise_for_status raises, response.json raises, the document has
\* no results_html, the markup has no result row, a row has no title, or all
\* is well.
RunFetches ==
    PluginFetches
        \cup {[kind |-> k, rows |-> <<>>] : k \in {"http_status", "bad_json", "no_html"}}
        \cup {FetchOf(<<>>), FetchOf(<<UntitledRow>>)}

\* A run that does not test the set for emptiness.
RunStartedUnchecked(set) == [IdleJob EXCEPT !.pc = "building", !.start = set]

\* The scheduler fires the cron job (lines 84-90): lines 115-119.
RunStarted(set) ==
    IF set = {} THEN Finished([IdleJob EXCEPT !.start = set], "no_subscribers")
    ELSE [IdleJob EXCEPT !.pc = "building", !.start = set]

\* next() of the set iterator of line 126 on the set as it is now: the ids it
\* may produce. An iterator over a set of another size than it was created
\* with raises RuntimeError; over a set mutated to the same size it may
\* produce any member or stop.
IterRaises(j, set) == Cardinality(set) # j.size
\* An iterator that may produce a member it has produced before.
IterNextRepeating(j, set) == IF j.sends < MaxSends THEN set ELSE set \ j.visited
IterNext(j, set) ==
    IF j.dirty THEN (IF j.sends < MaxSends THEN set ELSE {}) ELSE set \ j.visited
IterMayStop(j, set) == j.dirty \/ set \ j.visited = {}

\* A run that builds the report once for every recipient of the set.
RunBuiltPerRecipient(j, set, report) ==
    LET j1 == [j EXCEPT !.report = report, !.fetches = j.fetches + Cardinality(set),
                        !.size = Cardinality(set), !.dirty = FALSE]
    IN  IF report = None THEN {Finished(j1, "no_report")}
        ELSE IF set = {} THEN {Finished(j1, "completed")}
        ELSE {[j1 EXCEPT !.pc = "sending", !.cur = g, !.visited = {g}] : g \in set}

\* A run without the test of line 123: the loop starts whatever was built.
RunBuiltUnchecked(j, set, report) ==
    LET j1 == [j EXCEPT !.report = report, !.fetches = j.fetches + 1,
                        !.size = Cardinality(set), !.dirty = FALSE]
    IN  IF set = {} THEN {Finished(j1, "completed")}
        ELSE {[j1 EXCEPT !.pc = "sending", !.cur = g, !.visited = {g}] : g \in set}

\* lines 121-126: the build returned; the loop starts.
RunBuilt(j, set, report) ==
    LET j1 == [j EXCEPT !.report = report, !.fetches = j.fetches + 1,
                        !.size = Cardinality(set), !.dirty = FALSE]
    IN  IF report = None THEN {Finished(j1, "no_report")}
        ELSE IF set = {} THEN {Finished(j1, "completed")}
        ELSE {[j1 EXCEPT !.pc = "sending", !.cur = g, !.visited = {g}] : g \in set}

\* one more of id in the counts f
CountUp(f, id) ==
    IF id \in DOMAIN f THEN [f EXCEPT ![id] = f[id] + 1] ELSE f @@ (id :> 1)

\* lines 127-141: the awaited send returned or raised; the loop goes on.
RunSent(j, set, ok) ==
    LET j1 == [j EXCEPT !.sends = j.sends + 1,
                        !.texts = j.texts \cup {j.report},
                        !.delivered = IF ok THEN CountUp(j.delivered, j.cur) ELSE j.delivered,
                        !.failed = IF ok THEN j.failed ELSE j.failed \cup {j.cur}]
    IN  IF ~ok THEN {Finished(j1, "raised")}               \* except Exception, line 139
        ELSE IF IterRaises(j1, set) THEN {Finished(j1, "raised")}
        ELSE {[j1 EXCEPT !.cur = g, !.visited = j1.visited \cup {g}] : g \in IterNext(j1, set)}
                 \cup (IF IterMayStop(j1, set) THEN {Finished(j1, "completed")} ELSE {})

\* The run as a command handler leaves it. A finished run has returned: its
\* record is kept for the one state it ends in.
Returned(j) == IF j.pc = "done" THEN IdleJob ELSE j

\* A handler changed the set while a run iterates over it.
Mutated(j) == IF j.pc = "sending" THEN [j EXCEPT !.dirty = TRUE] ELSE Returned(j)

(***************************************************************************)
(* The state machine.                                                      *)
(***************************************************************************)
\* ev: the command (or the start) that produced the state, the origin of the
\* message that carried it, the id it was about, what it replied and what its
\* save did ("none": it did not save).
NoEvent == [op |-> "none", id |-> <<>>, reply |-> "none", save |-> "none"]

Init ==
    /\ proc = "down"
    /\ cfg = NoConfig
    /\ file = FileMissing
    /\ groups = {}
    /\ lastWrite = "none"
    /\ scheduler = NoScheduler
    /\ job = IdleJob
    /\ ev = NoEvent

\* __init__ (lines 27-44): the framework constructs the plugin with a
\* configuration. While the plugin is down, groups and lastWrite keep what the
\* previous process had when it stopped.
Start(c, rd, wr) ==
    /\ proc # "up"
    /\ LET ld == _load_subscribed_groups(file, c, rd, wr)
           armed == IF c.remind_time # <<>>
                    THEN _start_scheduler(NoScheduler, c)
                    ELSE [raised |-> FALSE, scheduler |-> NoScheduler]
       IN  /\ proc' = IF armed.raised THEN "failed" ELSE "up"
           /\ cfg' = c
           /\ file' = ld.file
           /\ groups' = ld.groups
           /\ lastWrite' = ld.lastWrite
           /\ scheduler' = armed.scheduler
           /\ job' = IdleJob
           /\ ev' = [op |-> "start", id |-> <<>>, reply |-> ld.read,
                     save |-> ld.lastWrite]

\* The framework unloads the plugin: terminate (lines 346-348). A run in
\* flight ends with the scheduler.
Terminate ==
    /\ proc = "up"
    /\ proc' = "down"
    /\ scheduler' = terminate(scheduler)
    /\ job' = IdleJob
    /\ ev' = NoEvent
    /\ UNCHANGED <<cfg, file, groups, lastWrite>>

\* A subscribe that saves before it inserts the id.
add_saving_first(origin, wr) ==
    /\ proc = "up"
    /\ IF format_group_origin(origin) \in groups
       THEN /\ ev' = [op |-> "subscribe", origin |-> origin, id |-> format_group_origin(origin),
                      reply |-> "already", save |-> "none"]
            /\ job' = Returned(job)
            /\ UNCHANGED <<groups, file, lastWrite>>
       ELSE /\ groups' = groups \cup {format_group_origin(origin)}
            /\ file' = _save_subscribed_groups(file, groups, wr)[1]
            /\ lastWrite' = _save_subscribed_groups(file, groups, wr)[2]
            /\ job' = Mutated(job)
            /\ ev' = [op |-> "subscribe", origin |-> origin, id |-> format_group_origin(origin),
                      reply |-> "subscribed", save |-> lastWrite']
    /\ UNCHANGED <<proc, cfg, scheduler>>

\* A subscribe that takes the id out again and reports the failure when the
\* save failed.
add_undone_on_failure(origin, wr) ==
    /\ proc = "up"
    /\ IF format_group_origin(origin) \in groups
       THEN /\ ev' = [op |-> "subscribe", origin |-> origin, id |-> format_group_origin(origin),
                      reply |-> "already", save |-> "none"]
            /\ job' = Returned(job)
            /\ UNCHANGED <<groups, file, lastWrite>>
       ELSE /\ file' = _save_subscribed_groups(
                           file, groups \cup {format_group_origin(origin)}, wr)[1]
            /\ lastWrite' = _save_subscribed_groups(
                                file, groups \cup {format_group_origin(origin)}, wr)[2]
            /\ groups' = IF lastWrite' = "ok"
                         THEN groups \cup {format_group_origin(origin)} ELSE groups
            /\ job' = IF lastWrite' = "ok" THEN Mutated(job) ELSE Returned(job)
            /\ ev' = [op |-> "subscribe", origin |-> origin, id |-> format_group_origin(origin),
                      reply |-> IF lastWrite' = "ok" THEN "subscribed" ELSE "failed",
                      save |-> lastWrite']
    /\ UNCHANGED <<proc, cfg, scheduler>>

\* add_daily_report_group (lines 207-217). There is no await between the
\* membership test, the mutation and the save: the handler is one step.
add_daily_report_group(origin, wr) ==
    /\ proc = "up"
    /\ LET subscribe_id == format_group_origin(origin)
       IN  IF subscribe_id \in groups
           THEN /\ ev' = [op |-> "subscribe", origin |-> origin, id |-> subscribe_id,
                          reply |-> "already", save |-> "none"]
                /\ job' = Returned(job)
                /\ UNCHANGED <<groups, file, lastWrite>>
           ELSE LET set == groups \cup {subscribe_id}
                    saved == _save_subscribed_groups(file, set, wr)
                IN  /\ groups' = set
                    /\ file' = saved[1]
                    /\ lastWrite' = saved[2]
                    /\ job' = Mutated(job)
                    /\ ev' = [op |-> "subscribe", origin |-> origin, id |-> subscribe_id,
                              reply |-> "subscribed", save |-> saved[2]]
    /\ UNCHANGED <<proc, cfg, scheduler>>

\* An unsubscribe without the membership test: set.discard and a save.
remove_without_test(origin, wr) ==
    /\ proc = "up"
    /\ groups' = groups \ {format_group_origin(origin)}
    /\ file' = _save_subscribed_groups(file, groups', wr)[1]
    /\ lastWrite' = _save_subscribed_groups(file, groups', wr)[2]
    /\ job' = Mutated(job)
    /\ ev' = [op |-> "unsubscribe", origin |-> origin, id |-> format_group_origin(origin),
              reply |-> "unsubscribed", save |-> lastWrite']
    /\ UNCHANGED <<proc, cfg, scheduler>>

\* remove_daily_report_group (lines 223-233)
remove_daily_report_group(origin, wr) ==
    /\ proc = "up"
    /\ LET subscribe_id == format_group_origin(origin)
       IN  IF subscribe_id \notin groups
           THEN /\ ev' = [op |-> "unsubscribe", origin |-> origin, id |-> subscribe_id,
                          reply |-> "not_subscribed", save |-> "none"]
                /\ job' = Returned(job)
                /\ UNCHANGED <<groups, file, lastWrite>>
           ELSE LET set == groups \ {subscribe_id}
                    saved == _save_subscribed_groups(file, set, wr)
                IN  /\ groups' = set
                    /\ file' = saved[1]
                    /\ lastWrite' = saved[2]
                    /\ job' = Mutated(job)
                    /\ ev' = [op |-> "unsubscribe", origin |-> origin, id |-> subscribe_id,
                              reply |-> "unsubscribed", save |-> saved[2]]
    /\ UNCHANGED <<proc, cfg, scheduler>>

\* get_steam_top_sellers (lines 198-205): int(args) if args else 5. The
\* handler reads no mutable state of the plugin, so its await is not split.
DefaultArg == 5
\* "获取Steam热销榜失败，请稍后再试。"
ReplyFailed == <<"failed">>
\* line 201
ArgNum(args) == IF args.given THEN args ELSE Num(DefaultArg)
\* lines 202-205
ReportReply(report_text) == IF report_text # None THEN report_text ELSE ReplyFailed

get_steam_top_sellers(args, fetch) ==
    /\ proc = "up"
    /\ ev' = [op |-> "report", num |-> ArgNum(args), fetch |-> fetch,
              effective |-> EffectiveNum(ArgNum(args), cfg.default_top_num),
              reply |-> ReportReply(
                  _generate_report_text(ArgNum(args), cfg.default_top_num, fetch))]
    /\ job' = Returned(job)
    /\ UNCHANGED <<proc, cfg, file, groups, lastWrite, scheduler>>

\* The cron trigger fires: _send_daily_report is called (lines 114-119). A
\* scheduler fires for as long as it runs, whether or not the framework still
\* holds the plugin.
Trigger ==
    /\ scheduler.running
    /\ scheduler.jobs # <<>>
    /\ job.pc \in {"idle", "done"}
    /\ job' = RunStarted(groups)
    /\ ev' = NoEvent
    /\ UNCHANGED <<proc, cfg, file, groups, lastWrite, scheduler>>

\* The report build of the run returns (line 121).
Built(fetch) ==
    /\ proc = "up"
    /\ job.pc = "building"
    /\ job' \in RunBuilt(job, groups, _generate_report_text(NoNum, cfg.default_top_num, fetch))
    /\ ev' = [op |-> "built", fetch |-> fetch]
    /\ UNCHANGED <<proc, cfg, file, groups, lastWrite, scheduler>>

\* The send awaited by the run returns (ok) or raises.
Sent(ok) ==
    /\ proc = "up"
    /\ job.pc = "sending"
    /\ job' \in RunSent(job, groups, ok)
    /\ ev' = NoEvent
    /\ UNCHANGED <<proc, cfg, file, groups, lastWrite, scheduler>>

(***************************************************************************)
(* The plugin: its construction and teardown, the subscription commands    *)
(* with every outcome of the file I/O, and the report command. The fan-out *)
(* run writes neither the set nor the file and no handler's guard reads    *)
(* it, so its steps are left to the specification SpecRun.                 *)
(***************************************************************************)
Next ==
    \/ \E c \in Configs, rd \in ReadOutcomes, wr \in SaveOutcomes : Start(c, rd, wr)
    \/ Terminate
    \/ \E o \in Origins, wr \in SaveOutcomes : add_daily_report_group(o, wr)
    \/ \E o \in Origins, wr \in SaveOutcomes : remove_daily_report_group(o, wr)
    \/ \E fetch \in PluginFetches : get_steam_top_sellers(NoNum, fetch)

Spec == Init /\ [][Next]_vars

(***************************************************************************)
(* The scheduler and the fan-out run, interleaved with the subscription    *)
(* commands and with restarts of the plugin; every read and write of the   *)
(* file succeeds.                                                          *)
(***************************************************************************)
NextRun ==
    \/ \E c \in Configs : Start(c, "ok", "ok")
    \/ Terminate
    \/ \E o \in Origins : add_daily_report_group(o, "ok")
    \/ \E o \in Origins : remove_daily_report_group(o, "ok")
    \/ \E fetch \in PluginFetches : get_steam_top_sellers(NoNum, fetch)
    \/ Trigger
    \/ \E fetch \in RunFetches : Built(fetch)
    \/ \E ok \in BOOLEAN : Sent(ok)

SpecRun == Init /\ [][NextRun]_vars

(***************************************************************************)
(* Arm attempts: _start_scheduler called again on the constructed plugin,  *)
(* between restarts and subscription commands; every read and write of the *)
(* file succeeds.                                                          *)
(***************************************************************************)
\* A call of _start_scheduler (lines 80-94) on the running plugin.
Arm ==
    /\ proc = "up"
    /\ scheduler' = _start_scheduler(scheduler, cfg).scheduler
    /\ ev' = [op |-> "arm", raised |-> _start_scheduler(scheduler, cfg).raised]
    /\ job' = Returned(job)
    /\ UNCHANGED <<proc, cfg, file, groups, lastWrite>>

NextArm ==
    \/ \E c \in Configs : Start(c, "ok", "ok")
    \/ Terminate
    \/ \E o \in Origins : add_daily_report_group(o, "ok")
    \/ \E o \in Origins : remove_daily_report_group(o, "ok")
    \/ Arm

SpecArm == Init /\ [][NextArm]_vars

(***************************************************************************)
(* The report builder alone: one call of the report command, or of         *)
(* _generate_report_text itself, with a count, a configured default and a  *)
(* fetch result drawn from the sets below.                                 *)
(***************************************************************************)
DiscountPrice == <<"-", "1", "0", "%", Yen, Space, "8", ",", "4", Yen, Space, "5", ",", "6">>
FreePrice == <<"Free">>

EmptyPrice == <<Space>>

ReportRows ==
    [title : {Absent, Elem(TitleText)},
     combined : {Absent, Elem(DiscountPrice)},
     plain : {Absent, Elem(FlatPrice), Elem(FreePrice), Elem(EmptyPrice)}]

RECURSIVE SeqsUpTo(_, _)
SeqsUpTo(S, n) ==
    IF n = 0 THEN {<<>>}
    ELSE LET shorter == SeqsUpTo(S, n - 1)
         IN  shorter \cup {Append(q, x) : q \in {r \in shorter : Len(r) = n - 1}, x \in S}

ReportFetches ==
    {FetchFailed, [kind |-> "bad_json", rows |-> <<>>], [kind |-> "no_html", rows |-> <<>>]}
        \cup {FetchOf(rows) : rows \in SeqsUpTo(ReportRows, MaxRows)}

\* The counts a command may carry, and the counts that matter against at most
\* MaxRows rows.
ReportNums == {NoNum} \cup {Num(n) : n \in (0 - NumSlack)..(MaxTopNum + NumSlack)}
SmallNums == {NoNum} \cup {Num(n) : n \in 0..(MaxRows + 1)}
SecondTitle == <<Space, "U">>
SecondRow == [title |-> Elem(SecondTitle), combined |-> Elem(DiscountPrice), plain |-> Absent]
CommandFetches ==
    {FetchFailed, FetchOf(<<GoodRow>>), FetchOf(<<UntitledRow>>), FetchOf(<<GoodRow, GoodRow>>),
     FetchOf(<<SecondRow, GoodRow>>)}

DefaultTopNums == {0, 5, 30}

\* A call of _generate_report_text(num) by any caller; the run calls it with
\* no argument (line 121).
generate_report_text(num, fetch) ==
    /\ proc = "up"
    /\ ev' = [op |-> "build", num |-> num, fetch |-> fetch,
              effective |-> EffectiveNum(num, cfg.default_top_num),
              reply |-> _generate_report_text(num, cfg.default_top_num, fetch)]
    /\ UNCHANGED <<proc, cfg, file, groups, lastWrite, scheduler, job>>

InitReport ==
    /\ proc = "up"
    /\ cfg \in {[NoConfig EXCEPT !.default_top_num = d] : d \in DefaultTopNums}
    /\ file = FileHolding({})
    /\ groups = {}
    /\ lastWrite = "ok"
    /\ scheduler = NoScheduler
    /\ job = IdleJob
    /\ ev = NoEvent

\* One call is followed per behaviour.
NextReport ==
    \/ ev = NoEvent /\ \E num \in ReportNums, fetch \in CommandFetches :
                          get_steam_top_sellers(num, fetch)
    \/ ev = NoEvent /\ \E num \in ReportNums, fetch \in CommandFetches :
                          generate_report_text(num, fetch)
    \/ ev = NoEvent /\ \E num \in SmallNums, fetch \in ReportFetches :
                          generate_report_text(num, fetch)

SpecReport == InitReport /\ [][NextReport]_vars

(***************************************************************************)
(* The time parser alone: parse_time_string is a static method, called     *)
(* here with every string of at most MaxTimeLen characters over TimeChars. *)
(***************************************************************************)
TimeChars == {"0", "2", "3", "5", "6", "8", Colon, FullWidthColon, "x"}

\* the strings of at most n characters
TimeStrings(n) == UNION {[1..k -> TimeChars] : k \in 0..n}

ParseCalled(time_str) ==
    /\ ev' = [op |-> "parse", time_str |-> time_str, result |-> parse_time_string(time_str)]
    /\ UNCHANGED <<proc, cfg, file, groups, lastWrite, scheduler, job>>

\* One call is followed per behaviour.
NextTime == ev = NoEvent /\ \E time_str \in TimeStrings(MaxTimeLen) : ParseCalled(time_str)

SpecTime == Init /\ [][NextTime]_vars

(***************************************************************************)
(* The price normalizer alone: _format_price is called with every text     *)
(* put together from at most MaxPieces of the pieces below.                *)
(***************************************************************************)
PricePieces ==
    { <<"Free">>, <<"MianFei">>,
      <<"-", "1", "0", "%">>,
      <<Yen, Space, "8", ",", "4">>,
      <<Yen, "5", ".", "6">>,
      <<Space>>, <<"x">>, <<"-">>, <<"7">> }

RECURSIVE Concat(_)
Concat(q) == IF q = <<>> THEN <<>> ELSE Head(q) \o Concat(Tail(q))

\* the texts of at most n pieces
PriceTexts(n) == {Concat(q) : q \in UNION {[1..k -> PricePieces] : k \in 0..n}}

FormatCalled(raw) ==
    /\ ev' = [op |-> "price", text |-> raw, result |-> _format_price(raw)]
    /\ UNCHANGED <<proc, cfg, file, groups, lastWrite, scheduler, job>>

\* One call is followed per behaviour.
NextPrice == ev = NoEvent /\ \E raw \in PriceTexts(MaxPieces) : FormatCalled(raw)

SpecPrice == Init /\ [][NextPrice]_vars

(***************************************************************************)
(* The claims.                                                             *)
(***************************************************************************)
Attempted(j) == (DOMAIN j.delivered) \cup j.failed

\* C1: in a fan-out run with a built report and no change of the subscription
\* set, a send is attempted to every recipient of the set, also when a send to
\* an earlier recipient of the run raised.
C1_FailureIsolated ==
    (job.pc = "done" /\ job.report # None /\ ~job.dirty /\ groups = job.start)
        => job.start \subseteq Attempted(job)

\* C2: a start with a non-empty remind_time that parse_time_string rejects
\* completes without an error and leaves the scheduler unarmed.
C2_RejectedTimeNoCrash ==
    (ev.op = "start" /\ cfg.remind_time # <<>> /\ parse_time_string(cfg.remind_time) = None)
        => (proc = "up" /\ scheduler = NoScheduler)

\* C3: after a load whose reads and writes succeeded, whether the file existed
\* or not, every static group and sender entry is in the set and in the file.
C3_StaticsAfterEveryLoad ==
    (ev.op = "start" /\ ev.reply \in {"ok", "nofile"} /\ ev.save = "ok")
        => (/\ StaticEntries(cfg) \subseteq groups
            /\ file.st = "ok"
            /\ StaticEntries(cfg) \subseteq file.data)

\* C4: a restart after a process whose latest save succeeded, reading the file
\* without error, loads exactly the set that process had in memory united with
\* the static entries configured at the restart.
C4_RestartRoundTrip ==
    [][(proc # "up" /\ ev'.op = "start" /\ lastWrite = "ok" /\ ev'.reply = "ok")
          => groups' = groups \cup StaticEntries(cfg')]_vars

\* a restart that loaded an id only a subscribe command can have put in the set
C4_Witness ==
    /\ ev.op = "start"
    /\ ev.reply = "ok"
    /\ ev.save = "ok"
    /\ FriendPrefix \o <<"u1">> \in groups
    /\ StaticEntries(cfg) # {}
    /\ ~(StaticEntries(cfg) \subseteq {GroupPrefix \o <<"g1">>})

\* C5: with every file write succeeding, in every interleaving of the
\* subscription commands, the report command and the steps of a fan-out run,
\* the file holds exactly the in-memory set.
C5_FileAgreesWithMemory ==
    (proc = "up" /\ lastWrite = "ok") => file = FileHolding(groups)

\* a command changed the set between two sends of a run
C5_Witness ==
    /\ job.pc = "sending"
    /\ job.dirty
    /\ ev.op \in {"subscribe", "unsubscribe"}
    /\ ev.save = "ok"
    /\ groups # job.start

\* C6: a fan-out run that starts with an empty subscription set ends at once,
\* having built no report and sent no message.
C6_EmptySetNoFetchNoSend ==
    (job.pc # "idle" /\ job.start = {})
        => (job.pc = "done" /\ job.fetches = 0 /\ job.sends = 0 /\ job.report = None)

C6_Witness ==
    /\ proc = "up"
    /\ scheduler.running
    /\ job.pc = "done"
    /\ job.start = {}
    /\ groups = {}

\* C7: a subscribe of an id in the set and an unsubscribe of an id not in the
\* set reply no-change and leave the set and the file as they were; a
\* subscribe of an id not in the set replies success and the set holds it.
C7_NoChangeOutcomes ==
    [][/\ (ev'.op = "subscribe" /\ ev'.id \in groups)
            => (ev'.reply = "already" /\ groups' = groups /\ file' = file)
       /\ (ev'.op = "unsubscribe" /\ ev'.id \notin groups)
            => (ev'.reply = "not_subscribed" /\ groups' = groups /\ file' = file)
       /\ (ev'.op = "subscribe" /\ ev'.id \notin groups)
            => (ev'.reply = "subscribed" /\ groups' = groups \cup {ev'.id})]_vars

\* the second subscribe of a session whose group is in the set, with a file
\* that differs from the set
C7_Witness ==
    /\ ev.op = "subscribe"
    /\ ev.reply = "already"
    /\ ev.id \in groups
    /\ file # FileHolding(groups)

\* C8: the effective count of the report builder is the requested integer
\* clamped to [1, 25].
C8_CountIsClamped ==
    (ev.op \in {"report", "build"} /\ ev.num.given) => ev.effective = Clamp(ev.num.n)

\* C9: with at least one result row fetched, the builder returns a report with
\* one entry for each of the first rows, whatever elements a row lacks.
C9_MissingElementsDegrade ==
    (ev.op \in {"report", "build"} /\ ev.fetch.kind = "html" /\ ev.fetch.rows # <<>>)
        => Len(ev.reply) = 1 + Min(ev.effective, Len(ev.fetch.rows))

\* C10: a subscribe or unsubscribe whose file write fails still replies with
\* its confirmation and the set holds the mutation; afterwards only a command
\* changes the set of the running plugin.
C10_FailedSaveKeepsMutation ==
    /\ [](/\ (ev.op = "subscribe" /\ ev.save = "failed")
               => (ev.reply = "subscribed" /\ ev.id \in groups)
          /\ (ev.op = "unsubscribe" /\ ev.save = "failed")
               => (ev.reply = "unsubscribed" /\ ev.id \notin groups))
    /\ [][(proc = "up" /\ proc' = "up" /\ groups' # groups)
             => (/\ ev'.op \in {"subscribe", "unsubscribe"}
                 /\ ev'.reply \in {"subscribed", "unsubscribed"}
                 /\ groups' \in {groups \cup {ev'.id}, groups \ {ev'.id}})]_vars

\* a failed write left the file without the id the set now holds
C10_Witness ==
    /\ ev.op = "subscribe"
    /\ ev.save = "failed"
    /\ ev.id \in groups
    /\ file.st = "ok"
    /\ ev.id \notin file.data

\* An origin id, or a stored id, of a group conversation: the platform, the
\* message type GroupMessage and a session that ends with the group id, with or
\* without a sender qualifier "sender_" before it.
IsGroupConversation(id) ==
    Len(id) >= 5 /\ id[2] = Colon /\ id[3] = "GroupMessage" /\ id[4] = Colon
SameGroup(a, b) ==
    /\ IsGroupConversation(a)
    /\ IsGroupConversation(b)
    /\ a[1] = b[1]
    /\ a[Len(a)] = b[Len(b)]
EntriesFor(origin, set) == {id \in set : SameGroup(id, origin)}

\* C11: the id stored for a group origin does not depend on the sender
\* qualifier: the set never holds two entries of one group; a subscribe from a
\* group that has an entry replies already-subscribed and changes nothing; an
\* unsubscribe from a group that has an entry, by whatever sender, leaves no
\* entry of that group; the id of a direct conversation is the origin itself.
C11_SenderQualifierIgnored ==
    /\ [](\A a, b \in groups : SameGroup(a, b) => a = b)
    /\ []((ev.op \in {"subscribe", "unsubscribe"} /\ ~IsGroupConversation(ev.origin))
             => ev.id = ev.origin)
    /\ [][/\ (ev'.op = "subscribe" /\ EntriesFor(ev'.origin, groups) # {})
               => (ev'.reply = "already" /\ groups' = groups)
          /\ (ev'.op = "subscribe" /\ EntriesFor(ev'.origin, groups) = {}
                 /\ IsGroupConversation(ev'.origin))
               => (ev'.reply = "subscribed"
                   /\ Cardinality(EntriesFor(ev'.origin, groups')) = 1)
          /\ (ev'.op = "unsubscribe" /\ EntriesFor(ev'.origin, groups) # {})
               => (ev'.reply = "unsubscribed"
                   /\ EntriesFor(ev'.origin, groups') = {}
                   /\ groups' = groups \ EntriesFor(ev'.origin, groups))]_vars

\* sender u2 is told that its group is subscribed, with no static entry
\* configured and its own origin id not in the set
C11_Witness ==
    /\ ev.op = "subscribe"
    /\ ev.reply = "already"
    /\ ev.origin = GroupPrefix \o <<"u2", Underscore, "g1">>
    /\ ev.origin \notin groups
    /\ StaticEntries(cfg) = {}

\* a call that returned a report text
ReportReturned == ev.op \in {"report", "build"} /\ ev.reply # None /\ ev.reply # ReplyFailed

\* C12: a returned report holds at most as many entries as the limit in force,
\* which is the requested count when that lies in [1, 25]; its entry at
\* position i carries rank i and the title of the i-th fetched row.
C12_RanksAndLimit ==
    ReportReturned =>
        /\ ev.reply[1] = <<"Top", ev.effective>>
        /\ (ev.num.given /\ ev.num.n \in 1..MaxTopNum) => ev.effective = ev.num.n
        /\ Len(ev.reply) - 1 <= ev.effective
        /\ Len(ev.reply) - 1 <= Len(ev.fetch.rows)
        /\ \A i \in 1..(Len(ev.reply) - 1) :
              /\ ev.reply[i + 1][1] = i
              /\ ev.fetch.rows[i].title.present
              /\ ev.reply[i + 1][2] = Strip(ev.fetch.rows[i].title.text)

\* a limit of 1 against two rows of different titles: the one entry is the
\* first row's
C12_Witness ==
    /\ ReportReturned
    /\ ev.num = Num(1)
    /\ ev.fetch = FetchOf(<<SecondRow, GoodRow>>)
    /\ Len(ev.reply) = 2
    /\ ev.reply[2][1] = 1
    /\ ev.reply[2][2] = <<"U">>

Colons == {Colon, FullWidthColon}

\* The expected shape at the start of s: one or two digits, an optional colon
\* of either width, two digits.
HasTimeShape(s) ==
    \E h \in {1, 2} :
        /\ IsDigits(s, 1, h)
        /\ \/ IsDigits(s, h + 1, 2)
           \/ (h + 1 <= Len(s) /\ s[h + 1] \in Colons /\ IsDigits(s, h + 2, 2))

\* The time <<hd, md>> (two digits each) that s is a spelling of: digits only,
\* with a colon of either width, or the latter without the leading zero of
\* the hour; None when s is no such spelling.
Spelled(s) ==
    IF Len(s) = 4 /\ IsDigits(s, 1, 4)
        THEN <<SubSeq(s, 1, 2), SubSeq(s, 3, 4)>>
    ELSE IF Len(s) = 5 /\ IsDigits(s, 1, 2) /\ s[3] \in Colons /\ IsDigits(s, 4, 2)
        THEN <<SubSeq(s, 1, 2), SubSeq(s, 4, 5)>>
    ELSE IF Len(s) = 4 /\ IsDigits(s, 1, 1) /\ s[2] \in Colons /\ IsDigits(s, 3, 2)
        THEN <<<<"0", s[1]>>, SubSeq(s, 3, 4)>>
    ELSE None

\* the match the pattern finds at the start of the string of the last call
LeadingMatch == TimeMatch(Replace(ev.time_str, FullWidthColon, Colon))

\* C13: parse_time_string returns a pair only with 0 <= hour <= 23 and
\* 0 <= minute <= 59; it returns None when the string does not start with the
\* expected shape and when the hour or the minute of its leading match is out
\* of range; every spelling of one time of day gives the same pair.
C13_TimeParser ==
    ev.op = "parse" =>
        /\ ev.result # None => (ev.result[1] \in 0..23 /\ ev.result[2] \in 0..59)
        /\ ~HasTimeShape(ev.time_str) => ev.result = None
        /\ (HasTimeShape(ev.time_str) /\ ev.result = None)
              => (IntOf(LeadingMatch[1]) > 23 \/ IntOf(LeadingMatch[2]) > 59)
        /\ (LeadingMatch # None /\ (IntOf(LeadingMatch[1]) > 23 \/ IntOf(LeadingMatch[2]) > 59))
              => ev.result = None
        /\ (/\ Spelled(ev.time_str) # None
            /\ IntOf(Spelled(ev.time_str)[1]) <= 23
            /\ IntOf(Spelled(ev.time_str)[2]) <= 59)
              => ev.result = <<IntOf(Spelled(ev.time_str)[1]), IntOf(Spelled(ev.time_str)[2])>>

\* "8:35" with the full-width colon
C13_Witness ==
    /\ ev.op = "parse"
    /\ ev.time_str = <<"8", FullWidthColon, "3", "5">>
    /\ ev.result = <<8, 35>>

\* Index of the first occurrence of token c in s, 0 when there is none.
IndexOf(s, c) ==
    IF Contains(s, c) THEN CHOOSE i \in 1..Len(s) : s[i] = c /\ \A j \in 1..(i - 1) : s[j] # c
    ELSE 0

\* a currency amount: the yen sign, spaces, digits and dots
IsAmount(a) ==
    /\ Len(a) >= 2
    /\ a[1] = Yen
    /\ \E k \in 1..(Len(a) - 1) :
          /\ \A j \in 2..k : a[j] = Space
          /\ \A j \in (k + 1)..Len(a) : a[j] \in AmountChars

Spaces(k) == [i \in 1..k |-> Space]

OccursIn(n, w) == \E i \in 1..Len(n) : i + Len(w) - 1 <= Len(n) /\ SubSeq(n, i, i + Len(w) - 1) = w

\* "<final> (original: <original>, -<pct>%)"
DiscountText(final, original, pct) ==
    final \o <<Space, "(", "original:", Space>> \o original
        \o <<",", Space, "-">> \o pct \o <<"%", ")">>

\* r is the discounted form of a "-pct%", a first and a second amount that
\* follow one another in n, the second amount being the final price
IsDiscountOf(r, n, final, original, pct) ==
    /\ r = DiscountText(final, original, pct)
    /\ IsAmount(final)
    /\ IsAmount(original)
    /\ pct # <<>>
    /\ IsDigits(pct, 1, Len(pct))
    /\ \E s1 \in 0..Len(n), s2 \in 0..Len(n) :
          OccursIn(n, <<"-">> \o pct \o <<"%">> \o Spaces(s1) \o original \o Spaces(s2) \o final)

DiscountedForm(r, n) ==
    /\ IndexOf(r, "(") > 2
    /\ IndexOf(r, ",") > IndexOf(r, "(") + 3
    /\ Len(r) >= IndexOf(r, ",") + 4
    /\ IsDiscountOf(r, n,
                    SubSeq(r, 1, IndexOf(r, "(") - 2),
                    SubSeq(r, IndexOf(r, "(") + 3, IndexOf(r, ",") - 1),
                    SubSeq(r, IndexOf(r, ",") + 3, Len(r) - 2))

HasFreeMarker(text) == \E i \in 1..Len(text) : text[i] \in FreeMarkers

\* the text of the last call, trimmed and with dots for commas
Trimmed == Replace(Strip(ev.text), ",", ".")

\* C14: _format_price gives the free-to-play string for every text with a free
\* marker, also when the text holds a discount; for a text without the marker
\* that holds "-pct%" followed by two amounts it gives the second amount, the
\* first as the original and the percentage; for every other text it gives
\* the trimmed text with dots for commas.
C14_PriceRuleOrder ==
    ev.op = "price" =>
        /\ HasFreeMarker(ev.text) => ev.result = FreeToPlay
        /\ (~HasFreeMarker(ev.text) /\ DiscountSearch(Trimmed) # None)
              => DiscountedForm(ev.result, Trimmed)
        /\ (~HasFreeMarker(ev.text) /\ DiscountSearch(Trimmed) = None)
              => ev.result = Trimmed

\* a text with the free marker and a discount
C14_Witness ==
    /\ ev.op = "price"
    /\ ev.text = <<"-", "1", "0", "%", Yen, Space, "8", ",", "4", Yen, "5", ".", "6", "Free">>
    /\ ev.result = FreeToPlay

\* C15: a fan-out run during which a subscribe or unsubscribe changed the set
\* between two sends, and in which no send raised, runs to completion and
\* attempts a send to every recipient the set held when the run started.
C15_SnapshotDelivery ==
    (job.pc = "done" /\ job.dirty /\ job.failed = {})
        => (job.outcome = "completed" /\ job.start \subseteq Attempted(job))

\* C16: the plugin has at most one scheduler, holding at most one job, of the
\* id "daily_steam_report"; a call of _start_scheduler on a plugin that has a
\* scheduler returns without error and changes nothing.
C16_ArmedOnce ==
    /\ [](/\ scheduler.created <= 1
          /\ Len(scheduler.jobs) <= 1
          /\ \A i \in 1..Len(scheduler.jobs) : scheduler.jobs[i].id = "daily_steam_report")
    /\ [][(ev'.op = "arm" /\ scheduler # NoScheduler)
             => (/\ ~ev'.raised
                 /\ scheduler' = scheduler
                 /\ <<proc, cfg, file, groups, lastWrite>>' = <<proc, cfg, file, groups, lastWrite>>)]_vars

\* a second arm attempt on the armed plugin
C16_Witness ==
    /\ ev.op = "arm"
    /\ ~ev.raised
    /\ scheduler.created = 1
    /\ Len(scheduler.jobs) = 1
    /\ scheduler.running

\* C17: a fan-out run calls the report builder at most once, before its first
\* send, and every text it passes to send_message is the text that call
\* returned.
C17_BuiltOnce ==
    /\ job.fetches <= 1
    /\ job.pc = "sending" => job.fetches = 1
    /\ job.sends > 0 => (job.fetches = 1 /\ job.report # None /\ job.texts = {job.report})

\* two recipients were sent the text of the one build
C17_Witness ==
    /\ job.fetches = 1
    /\ job.sends >= 2
    /\ Cardinality(DOMAIN job.delivered) >= 2
    /\ job.texts = {job.report}

\* the fetch of a build ended in a network failure, a non-success status, a
\* malformed response or a result without rows
BuildFails(fetch) == fetch.kind # "html" \/ fetch.rows = <<>>

\* C18: a fan-out run whose report build failed ends when the build returns,
\* without an error, having called send_message for no recipient.
C18_FailedBuildSkipsRun ==
    /\ (ev.op = "built" /\ BuildFails(ev.fetch))
          => (job.pc = "done" /\ job.outcome = "no_report")
    /\ job.outcome = "no_report"
          => (/\ job.pc = "done"
              /\ job.report = None
              /\ job.sends = 0
              /\ job.texts = {}
              /\ Attempted(job) = {})

\* the fetch of a run over a non-empty set returned markup without a row
C18_Witness ==
    /\ ev.op = "built"
    /\ ev.fetch = FetchOf(<<>>)
    /\ job.outcome = "no_report"
    /\ job.start # {}
    /\ groups # {}

\* a step that starts a fan-out run
RunTriggered ==
    \/ (job.pc # "building" /\ job'.pc = "building")
    \/ (job.outcome # "no_subscribers" /\ job'.outcome = "no_subscribers")

\* C19: the teardown of a plugin with a running scheduler stops the scheduler,
\* and from then on no fan-out run starts; the teardown of a plugin without a
\* running scheduler changes nothing.
C19_TeardownStopsScheduler ==
    /\ [](proc = "down" => ~scheduler.running)
    /\ [](~(scheduler.created > 0 /\ scheduler.running) => terminate(scheduler) = scheduler)
    /\ [][/\ (proc = "up" /\ proc' = "down" /\ scheduler.running)
               => scheduler' = [scheduler EXCEPT !.running = FALSE]
          /\ (proc = "up" /\ proc' = "down" /\ ~scheduler.running)
               => scheduler' = scheduler
          /\ (proc = "up" /\ proc' = "down")
               => <<cfg, file, groups, lastWrite>>' = <<cfg, file, groups, lastWrite>>
          /\ RunTriggered => (proc = "up" /\ scheduler.running /\ proc' = "up")]_vars

\* the teardown of a plugin with subscribers whose scheduler was running
C19_Witness ==
    /\ proc = "down"
    /\ scheduler.created = 1
    /\ ~scheduler.running
    /\ scheduler.jobs # <<>>
    /\ groups # {}

\* C20: a fan-out run with a report, in which no send raised and during which
\* the set was not changed, completes having sent to every member of the set
\* exactly once: the sends are as many as the members.
C20_EachRecipientOnce ==
    (job.pc = "done" /\ job.report # None /\ job.failed = {} /\ ~job.dirty /\ groups = job.start)
        => (/\ job.outcome = "completed"
            /\ DOMAIN job.delivered = job.start
            /\ \A g \in job.start : job.delivered[g] = 1
            /\ job.sends = Cardinality(job.start))

\* a completed run over two recipients
C20_Witness ==
    /\ job.pc = "done"
    /\ job.outcome = "completed"
    /\ job.failed = {}
    /\ ~job.dirty
    /\ groups = job.start
    /\ Cardinality(job.start) >= 2
    /\ job.sends = Cardinality(job.start)

====
